---- MODULE Spec2Model ----
(***************************************************************************)
(* Model of the arXiv relevance pipeline of src/main.py: cache load, the   *)
(* per-topic / per-entry loop of main(), the LLM answer parser, the cache  *)
(* file and the batched e-mail notification.                               *)
(*                                                                         *)
(* Text is modelled as a sequence of one-character strings.  Time is an    *)
(* integer number of ticks; a day is TicksPerDay ticks.                    *)
(***************************************************************************)
EXTENDS Integers, Sequences, FiniteSets, TLC

----------------------------------------------------------------------------
(* Bounds of the model *)

NumTopics == 2      \* how many of the configured TOPICS a run walks through
MaxFeed == 2        \* longest feed one query returns (MAX_RESULTS caps it)
MaxRuns == 2        \* how many executions of main() in a row
MaxOut == 4         \* longest classifier output in the parser specification
TicksPerDay == 1    \* clock resolution

(* Program constants *)

DAYS_BACK == 7

----------------------------------------------------------------------------
(* Text helpers: str.strip, str.split, str.upper, str.rstrip *)

Whitespace == {" ", "\n", "\t"}

TrailingPunct == {".", ",", "!", "?", ":", ";"}

Digits == {"0", "1", "2", "3", "4", "5", "6", "7", "8", "9"}

RECURSIVE lstrip(_, _)
lstrip(s, chars) ==
    IF s # <<>> /\ Head(s) \in chars THEN lstrip(Tail(s), chars) ELSE s

RECURSIVE rstrip(_, _)
rstrip(s, chars) ==
    IF s # <<>> /\ s[Len(s)] \in chars
    THEN rstrip(SubSeq(s, 1, Len(s) - 1), chars)
    ELSE s

strip(s) == rstrip(lstrip(s, Whitespace), Whitespace)

upperChar(c) ==
    CASE c = "y" -> "Y"
      [] c = "e" -> "E"
      [] c = "s" -> "S"
      [] c = "n" -> "N"
      [] c = "o" -> "O"
      [] c = "m" -> "M"
      [] c = "a" -> "A"
      [] c = "b" -> "B"
      [] OTHER -> c

upper(s) == [i \in 1..Len(s) |-> upperChar(s[i])]

RECURSIVE firstWord(_)
(* words[0] of s.split() for a text that does not start with whitespace *)
firstWord(s) ==
    IF s = <<>> \/ Head(s) \in Whitespace
    THEN <<>>
    ELSE <<Head(s)>> \o firstWord(Tail(s))

YES == <<"Y", "E", "S">>

NO == <<"N", "O">>

----------------------------------------------------------------------------
(* parse_llm_response: the pair (is_relevant, extracted_answer) *)

parse_llm_response_keep_punct(output) ==
    IF output = <<>>
    THEN <<FALSE, "(empty)">>
    ELSE LET stripped == strip(output)
         IN IF stripped = <<>>
            THEN <<FALSE, "(empty)">>
            ELSE LET first_word == upper(strip(firstWord(stripped)))
                 IN <<first_word = YES, first_word>>

parse_llm_response(output) ==
    IF output = <<>>
    THEN <<FALSE, "(empty)">>
    ELSE LET stripped == strip(output)
         IN IF stripped = <<>>
            THEN <<FALSE, "(empty)">>
            ELSE LET first_word ==
                         rstrip(upper(strip(firstWord(stripped))), TrailingPunct)
                 IN <<first_word = YES, first_word>>

(* llm_filter: a run of the classifier process either fails (spawn error,  *)
(* non-zero exit) or exits 0 with some standard output.                    *)
llm_filter_fail_open(result) ==
    IF result.exit = "fail"
    THEN TRUE
    ELSE parse_llm_response(strip(result.stdout))[1]

llm_filter(result) ==
    IF result.exit = "fail"
    THEN FALSE
    ELSE parse_llm_response(strip(result.stdout))[1]

----------------------------------------------------------------------------
(* extract_paper_id: re.search(r'/(\d{4}\.\d{4,5})') and the fallback      *)
(* re.search(r'(\d{4}\.\d{4,5})'); None when neither matches.              *)

(* Python's None: no text equals it *)
None == <<"None">>

AllDigits(s, from, to) ==
    \A k \in from..to : k <= Len(s) /\ s[k] \in Digits

(* \d{4}\.\d{4,5} matches at position p *)
IdAt(s, p) ==
    /\ p >= 1
    /\ p + 8 <= Len(s)
    /\ AllDigits(s, p, p + 3)
    /\ s[p + 4] = "."
    /\ AllDigits(s, p + 5, p + 8)

(* the text the greedy \d{4,5} group takes at p *)
IdText(s, p) ==
    IF p + 9 <= Len(s) /\ s[p + 9] \in Digits
    THEN SubSeq(s, p, p + 9)
    ELSE SubSeq(s, p, p + 8)

Min(S) == CHOOSE x \in S : \A y \in S : x <= y

(* a value that is not a str: None, or a number *)
Number == <<"int">>

NotText == {None, Number}

(* the TypeError re.search raises when its second argument is not text *)
TypeError == <<"TypeError">>

(* line 36: getattr(entry, 'id', getattr(entry, 'link', '')) *)
getattr_id(entry) ==
    IF "id" \in DOMAIN entry
    THEN entry.id
    ELSE IF "link" \in DOMAIN entry THEN entry.link ELSE <<>>

extract_paper_id(entry) ==
    LET id_str == getattr_id(entry)
        slashed == {p \in 1..Len(id_str) : id_str[p] = "/" /\ IdAt(id_str, p + 1)}
        anywhere == {p \in 1..Len(id_str) : IdAt(id_str, p)}
    IN IF id_str \in NotText
       THEN TypeError
       ELSE IF slashed # {}
            THEN IdText(id_str, Min(slashed) + 1)
            ELSE IF anywhere # {}
                 THEN IdText(id_str, Min(anywhere))
                 ELSE None

----------------------------------------------------------------------------
(* The feed: entries a query can return.  An entry carries the text that   *)
(* getattr(entry, 'id', getattr(entry, 'link', '')) yields and its         *)
(* published timestamp.                                                    *)

Clock0 == 20        \* wall clock when the first run starts

Window == DAYS_BACK * TicksPerDay

RawA == <<"/", "2", "4", "0", "1", ".", "0", "0", "0", "1", "v", "1">>

RawB == <<"/", "2", "4", "0", "1", ".", "0", "0", "0", "2">>

RawBad == <<"/", "a", "b", "s">>

RawIds == {RawA, RawB, RawBad}

PubTimes == {Clock0 - Window - 1, Clock0 - Window, Clock0, Clock0 + 1}

(* Every id at a time that is in range in each run, and one id at every    *)
(* time around the two ends of the range.                                  *)
FeedEntries ==
    [id : RawIds, published : {Clock0}] \cup [id : {RawA}, published : PubTimes]

(* sortBy=submittedDate&sortOrder=descending: newest first *)
Descending(es) ==
    \A i \in 1..Len(es) - 1 : es[i].published >= es[i + 1].published

Feeds ==
    {es \in UNION {[1..n -> FeedEntries] : n \in 0..MaxFeed} : Descending(es)}

(* What one run of the classifier process can give back *)
LlmResults ==
    {[exit |-> "fail", stdout |-> <<>>]}
    \cup {[exit |-> "ok", stdout |-> o] : o \in {YES, <<"n", "o", ".", "\n">>}}

NoLlm == [exit |-> "none", stdout |-> <<>>]

NoCall == [entry |-> <<>>, result |-> NoLlm]

(* Classifier outputs of the parser specification *)
OutChars == {"Y", "e", "S", "N", "O", " ", "\n", ".", "!"}

Examples ==
    {YES, <<"y", "e", "s", ".">>, <<"Y", "e", "s", "!">>, NO, <<>>,
     <<"M", "A", "Y", "B", "E">>, <<" ", "y", "e", "s", ".", ".", " ", "N", "O">>}

Outputs == UNION {[1..n -> OutChars] : n \in 0..MaxOut} \cup Examples

----------------------------------------------------------------------------
VARIABLES
    file_exists,            \* os.path.exists(RELEVANT_PAPERS_FILE)
    file,                   \* the lines of RELEVANT_PAPERS_FILE
    clock,                  \* wall clock
    run,                    \* number of the current execution of main()
    pc,                     \* where main() stands
    cached_paper_ids,
    now,
    relevant_papers,
    new_relevant_papers,
    total_entries_processed,
    total_entries_in_range,
    total_llm_calls,
    total_cached_hits,
    idx,                    \* 1-based number of the current topic
    entries,                \* feed of the current topic
    entry_idx,              \* 1-based number of the next entry of entries
    sleeps,                 \* time.sleep(3) calls of this run
    emails,                 \* batches given to send_batch_email_notification
    is_relevant,
    llm_result,             \* history: classifier result for the last entry
    save_result,            \* history: "ok"/"fail" of the last entry's append
    loaded,                 \* history: the set the cache load of this run gave
    retry,                  \* history: the last entry of the run before, if
                            \* the classifier was asked and nothing was cached
    lines_read,             \* history: lines the cache load of this run read
    lines_missed,           \* history: lines it did not get to
    extracted,              \* outcome of a call of extract_paper_id
    feed_error,             \* history: query_arxiv raised in this run
    append_failed,          \* history: an append of this run failed
    llm_relevant,           \* history: classifier verdicts "relevant", this run
    io_clean,               \* history: no load and no append failed so far
    ever_new,               \* history: ids put on new_relevant_papers so far
    ever_notified           \* history: ids of the batches sent so far

vars ==
    <<file_exists, file, clock, run, pc, cached_paper_ids, now,
      relevant_papers, new_relevant_papers, total_entries_processed,
      total_entries_in_range, total_llm_calls, total_cached_hits, idx,
      entries, entry_idx, sleeps, emails, is_relevant, llm_result,
      save_result, loaded, retry, lines_read, lines_missed, extracted,
      feed_error, append_failed, llm_relevant, io_clean, ever_new,
      ever_notified>>

disk == <<file_exists, file>>

counters ==
    <<total_entries_processed, total_entries_in_range, total_llm_calls,
      total_cached_hits>>

history == <<loaded, retry, lines_read, lines_missed, extracted>>

ledger ==
    <<feed_error, append_failed, llm_relevant, io_clean, ever_new,
      ever_notified>>

week_ago == now - Window

format_entry(entry) == [Date |-> entry.published, Link |-> entry.id]

date(published) == published \div TicksPerDay

----------------------------------------------------------------------------
(* load_relevant_paper_ids: the set read when the read loop gets through   *)
(* the first `upto` lines (all of them when nothing fails).                *)
load_relevant_paper_ids_keeps_blank(exists, lines, upto) ==
    IF ~exists
    THEN {}
    ELSE {strip(lines[i]) : i \in 1..upto}

load_relevant_paper_ids_all_or_nothing(exists, lines, upto) ==
    IF ~exists \/ upto < Len(lines)
    THEN {}
    ELSE {strip(lines[i]) : i \in 1..upto} \ {<<>>}

load_relevant_paper_ids_cold(exists, lines, upto) == {}

load_relevant_paper_ids(exists, lines, upto) ==
    IF ~exists
    THEN {}
    ELSE {strip(lines[i]) : i \in 1..upto} \ {<<>>}

(* save_paper_id: open(file_path, 'a') and write one line; an exception    *)
(* is caught and leaves the file as it was.                                *)
save_paper_id_no_write(exists, lines, paper_id, io_ok) ==
    IF io_ok THEN <<TRUE, lines>> ELSE <<exists, lines>>

save_paper_id_truncating(exists, lines, paper_id, io_ok) ==
    IF io_ok THEN <<TRUE, <<paper_id>>>> ELSE <<exists, lines>>

save_paper_id_failure_truncates(exists, lines, paper_id, io_ok) ==
    IF io_ok THEN <<TRUE, Append(lines, paper_id)>> ELSE <<exists, <<>>>>

save_paper_id(exists, lines, paper_id, io_ok) ==
    IF io_ok
    THEN <<TRUE, Append(lines, paper_id)>>
    ELSE <<exists, lines>>

(* line 320 *)
in_date_range_exclusive(published_date, from, to) ==
    from < published_date /\ published_date < to

in_date_range(published_date, from, to) ==
    from <= published_date /\ published_date <= to

(* line 340 *)
cache_hit_never(paper_id, cached) ==
    paper_id # None /\ paper_id \in {}

cache_hit(paper_id, cached) ==
    paper_id # None /\ paper_id \in cached

(* line 357 *)
is_new_paper_negated(paper_id, cached) ==
    ~(paper_id = None \/ paper_id \notin cached)

is_new_paper(paper_id, cached) ==
    paper_id = None \/ paper_id \notin cached

(* lines 356-360: the in-memory set after the classifier's verdict *)
cache_add_unguarded(cached, paper_id, relevant) ==
    IF relevant THEN cached \cup {paper_id} ELSE cached

cache_add_forgets(cached, paper_id, relevant) == cached

cache_add(cached, paper_id, relevant) ==
    IF relevant /\ paper_id # None THEN cached \cup {paper_id} ELSE cached

(* lines 356-366: the notification list after the classifier's verdict *)
queue_new_cacheable_only(new_list, entry, paper_id, relevant, cached) ==
    IF relevant /\ paper_id # None /\ is_new_paper(paper_id, cached)
    THEN Append(new_list, <<entry, paper_id>>)
    ELSE new_list

queue_new(new_list, entry, paper_id, relevant, cached) ==
    IF relevant /\ is_new_paper(paper_id, cached)
    THEN Append(new_list, <<entry, paper_id>>)
    ELSE new_list

(* lines 370-372 *)
collect_prepending(relevant_list, entry, relevant) ==
    IF relevant
    THEN <<<<date(entry.published), format_entry(entry)>>>> \o relevant_list
    ELSE relevant_list

collect(relevant_list, entry, relevant) ==
    IF relevant
    THEN Append(relevant_list, <<date(entry.published), format_entry(entry)>>)
    ELSE relevant_list

(* send_batch_email_notification: an empty list returns at once *)
send_batch_email_notification(sent, papers_list) ==
    IF papers_list = <<>> THEN sent ELSE Append(sent, papers_list)

(* lines 387-393 *)
notify_unguarded(sent, new_list) == Append(sent, new_list)

notify(sent, new_list) ==
    IF new_list # <<>>
    THEN send_batch_email_notification(sent, new_list)
    ELSE sent

(* The reporter of the script's reporting variants (not in main.py, which *)
(* only fills relevant_papers): the list is sorted by its date component,  *)
(* latest first, by a stable sort, and printed with a header line before   *)
(* the first paper of every date.                                          *)
RECURSIVE sort_by_date_descending(_)
sort_by_date_descending(relevant_list) ==
    IF relevant_list = <<>>
    THEN <<>>
    ELSE LET front ==
                 sort_by_date_descending(
                     SubSeq(relevant_list, 1, Len(relevant_list) - 1))
             paper == relevant_list[Len(relevant_list)]
             ahead == {k \in 1..Len(front) : front[k][1] >= paper[1]}
             n == Cardinality(ahead)
         IN SubSeq(front, 1, n) \o <<paper>> \o SubSeq(front, n + 1, Len(front))

RECURSIVE print_grouped(_, _)
print_grouped(sorted, k) ==
    IF k > Len(sorted)
    THEN <<>>
    ELSE (IF k = 1 \/ sorted[k][1] # sorted[k - 1][1]
          THEN <<[header |-> TRUE, date |-> sorted[k][1]]>>
          ELSE <<>>)
         \o <<[header |-> FALSE, paper |-> sorted[k][2]]>>
         \o print_grouped(sorted, k + 1)

report(relevant_list) == print_grouped(sort_by_date_descending(relevant_list), 1)

(* line 382: time.sleep(3) follows every topic but the last *)
pause_after_every_topic(topic) == topic <= NumTopics

pause_due(topic) == topic < NumTopics

(* the present ids of the papers in the batches *)
BatchIds(sent) ==
    UNION {{sent[b][k][2] : k \in 1..Len(sent[b])} : b \in 1..Len(sent)}
        \ {None}

----------------------------------------------------------------------------
Init ==
    /\ file_exists = FALSE
    /\ file = <<>>
    /\ clock = Clock0
    /\ run = 0
    /\ pc = "exit"
    /\ cached_paper_ids = {}
    /\ now = Clock0
    /\ relevant_papers = <<>>
    /\ new_relevant_papers = <<>>
    /\ total_entries_processed = 0
    /\ total_entries_in_range = 0
    /\ total_llm_calls = 0
    /\ total_cached_hits = 0
    /\ idx = 1
    /\ entries = <<>>
    /\ entry_idx = 1
    /\ sleeps = 0
    /\ emails = <<>>
    /\ is_relevant = FALSE
    /\ llm_result = NoLlm
    /\ save_result = "none"
    /\ loaded = {}
    /\ retry = NoCall
    /\ lines_read = 0
    /\ lines_missed = 0
    /\ extracted = None
    /\ feed_error = FALSE
    /\ append_failed = FALSE
    /\ llm_relevant = 0
    /\ io_clean = TRUE
    /\ ever_new = {}
    /\ ever_notified = {}

(* main(), lines 270-294: a new process starts, loads the cache, takes     *)
(* `now` once and clears the accumulators.                                 *)
StartRun ==
    /\ pc \in {"exit", "crashed"}
    /\ run < MaxRuns
    /\ run' = run + 1
    /\ \E upto \in 0..Len(file) :
          /\ cached_paper_ids' = load_relevant_paper_ids(file_exists, file, upto)
          /\ loaded' = cached_paper_ids'
          /\ lines_read' = (IF file_exists THEN upto ELSE 0)
          /\ lines_missed' = Len(file) - upto
          /\ io_clean' = (io_clean /\ upto = Len(file))
    /\ now' = clock
    /\ relevant_papers' = <<>>
    /\ new_relevant_papers' = <<>>
    /\ total_entries_processed' = 0
    /\ total_entries_in_range' = 0
    /\ total_llm_calls' = 0
    /\ total_cached_hits' = 0
    /\ idx' = 1
    /\ entries' = <<>>
    /\ entry_idx' = 1
    /\ sleeps' = 0
    /\ emails' = <<>>
    /\ llm_result' = NoLlm
    /\ save_result' = "none"
    /\ is_relevant' = FALSE
    /\ retry' =
           IF /\ entry_idx > 1
              /\ \/ llm_result.exit = "fail"
                 \/ /\ llm_result.exit = "ok"
                    /\ is_relevant
                    /\ extract_paper_id(entries[entry_idx - 1]) = None
           THEN [entry |-> entries[entry_idx - 1], result |-> llm_result]
           ELSE NoCall
    /\ feed_error' = FALSE
    /\ append_failed' = FALSE
    /\ llm_relevant' = 0
    /\ pc' = "topic"
    /\ UNCHANGED <<disk, clock, extracted, ever_new, ever_notified>>

(* lines 296-305: query_arxiv returns the feed of topic idx *)
HarvestFrom(feeds) ==
    /\ pc = "topic"
    /\ \E es \in feeds :
          /\ entries' = es
          /\ total_entries_processed' = total_entries_processed + Len(es)
    /\ entry_idx' = 1
    /\ pc' = "entry"
    /\ UNCHANGED <<disk, clock, run, cached_paper_ids, now, relevant_papers,
                   new_relevant_papers, total_entries_in_range,
                   total_llm_calls, total_cached_hits, idx, sleeps, emails,
                   is_relevant, llm_result, save_result, history, ledger>>

Harvest == HarvestFrom(Feeds)

(* line 301: requests.get raises; nothing catches it and the process ends *)
HarvestFails_caught ==
    /\ pc = "topic"
    /\ feed_error' = TRUE
    /\ entries' = <<>>
    /\ entry_idx' = 1
    /\ pc' = "entry"
    /\ UNCHANGED <<disk, clock, run, cached_paper_ids, now, relevant_papers,
                   new_relevant_papers, counters, idx, sleeps, emails,
                   is_relevant, llm_result, save_result, history,
                   append_failed, llm_relevant, io_clean, ever_new,
                   ever_notified>>

HarvestFails ==
    /\ pc = "topic"
    /\ pc' = "crashed"
    /\ feed_error' = TRUE
    /\ UNCHANGED <<disk, clock, run, cached_paper_ids, now, relevant_papers,
                   new_relevant_papers, counters, idx, entries, entry_idx,
                   sleeps, emails, is_relevant, llm_result, save_result,
                   history, append_failed, llm_relevant, io_clean, ever_new,
                   ever_notified>>

(* lines 308-323: an entry outside [week_ago, now] is skipped *)
SkipEntry ==
    /\ pc = "entry"
    /\ entry_idx <= Len(entries)
    /\ ~in_date_range(entries[entry_idx].published, week_ago, now)
    /\ entry_idx' = entry_idx + 1
    /\ llm_result' = NoLlm
    /\ save_result' = "none"
    /\ UNCHANGED <<disk, clock, run, pc, cached_paper_ids, now,
                   relevant_papers, new_relevant_papers, counters, idx,
                   entries, sleeps, emails, is_relevant, history, ledger>>

(* lines 325-344 and 370-374: the id is in the cache *)
CachedEntry ==
    /\ pc = "entry"
    /\ entry_idx <= Len(entries)
    /\ LET entry == entries[entry_idx]
           paper_id == extract_paper_id(entry)
       IN /\ in_date_range(entry.published, week_ago, now)
          /\ cache_hit(paper_id, cached_paper_ids)
          /\ total_entries_in_range' = total_entries_in_range + 1
          /\ total_cached_hits' = total_cached_hits + 1
          /\ is_relevant' = TRUE
          /\ relevant_papers' = collect(relevant_papers, entry, is_relevant')
    /\ entry_idx' = entry_idx + 1
    /\ llm_result' = NoLlm
    /\ save_result' = "none"
    /\ UNCHANGED <<disk, clock, run, pc, cached_paper_ids, now,
                   new_relevant_papers, total_entries_processed,
                   total_llm_calls, idx, entries, sleeps, emails, history,
                   ledger>>

(* lines 325-338 and 345-377: the classifier is asked *)
ClassifyWith(results) ==
    /\ pc = "entry"
    /\ entry_idx <= Len(entries)
    /\ LET entry == entries[entry_idx]
           paper_id == extract_paper_id(entry)
       IN /\ in_date_range(entry.published, week_ago, now)
          /\ ~cache_hit(paper_id, cached_paper_ids)
          /\ total_entries_in_range' = total_entries_in_range + 1
          /\ total_llm_calls' = total_llm_calls + 1
          /\ \E result \in results, io_ok \in BOOLEAN :
                LET saved == save_paper_id(file_exists, file, paper_id, io_ok)
                IN /\ llm_result' = result
                   /\ is_relevant' = llm_filter(result)
                   /\ cached_paper_ids' =
                          cache_add(cached_paper_ids, paper_id, is_relevant')
                   /\ IF is_relevant' /\ paper_id # None
                      THEN /\ file_exists' = saved[1]
                           /\ file' = saved[2]
                           /\ save_result' = IF io_ok THEN "ok" ELSE "fail"
                      ELSE /\ io_ok
                           /\ save_result' = "none"
                           /\ UNCHANGED disk
                   /\ new_relevant_papers' =
                          queue_new(new_relevant_papers, entry, paper_id,
                                    is_relevant', cached_paper_ids)
                   /\ relevant_papers' =
                          collect(relevant_papers, entry, is_relevant')
                   /\ llm_relevant' =
                          IF is_relevant' THEN llm_relevant + 1 ELSE llm_relevant
                   /\ append_failed' = (append_failed \/ save_result' = "fail")
                   /\ io_clean' = (io_clean /\ save_result' # "fail")
                   /\ ever_new' =
                          IF /\ new_relevant_papers' # new_relevant_papers
                             /\ paper_id # None
                          THEN ever_new \cup {paper_id}
                          ELSE ever_new
    /\ entry_idx' = entry_idx + 1
    /\ UNCHANGED <<clock, run, pc, now, total_entries_processed,
                   total_cached_hits, idx, entries, sleeps, emails, history,
                   feed_error, ever_notified>>

ClassifyEntry == ClassifyWith(LlmResults)

(* lines 379-385: the topic is done; sleep unless it was the last one *)
NextTopic ==
    /\ pc = "entry"
    /\ entry_idx > Len(entries)
    /\ idx < NumTopics
    /\ idx' = idx + 1
    /\ sleeps' = (IF pause_due(idx) THEN sleeps + 1 ELSE sleeps)
    /\ clock' = (IF pause_due(idx) THEN clock + 1 ELSE clock)
    /\ pc' = "topic"
    /\ UNCHANGED <<disk, run, cached_paper_ids, now, relevant_papers,
                   new_relevant_papers, counters, entries, entry_idx, emails,
                   is_relevant, llm_result, save_result, history, ledger>>

(* lines 382 and 387-401: the last topic is done; one batch e-mail *)
Finish ==
    /\ pc = "entry"
    /\ entry_idx > Len(entries)
    /\ ~(idx < NumTopics)
    /\ emails' = notify(emails, new_relevant_papers)
    /\ ever_notified' = ever_notified \cup BatchIds(emails')
    /\ sleeps' = (IF pause_due(idx) THEN sleeps + 1 ELSE sleeps)
    /\ clock' = (IF pause_due(idx) THEN clock + 1 ELSE clock)
    /\ pc' = "exit"
    /\ UNCHANGED <<disk, run, cached_paper_ids, now, relevant_papers,
                   new_relevant_papers, counters, idx, entries, entry_idx,
                   is_relevant, llm_result, save_result, history,
                   feed_error, append_failed, llm_relevant, io_clean, ever_new>>

Next ==
    \/ StartRun
    \/ Harvest
    \/ HarvestFails
    \/ SkipEntry
    \/ CachedEntry
    \/ ClassifyEntry
    \/ NextTopic
    \/ Finish

Spec == Init /\ [][Next]_vars

----------------------------------------------------------------------------
(* The classifier adapter alone: llm_filter is in the middle of its call   *)
(* with any outcome of the classifier process, and returns its verdict.    *)

InitParse ==
    /\ file_exists = FALSE
    /\ file = <<>>
    /\ clock = Clock0
    /\ run = 1
    /\ pc = "llm"
    /\ cached_paper_ids = {}
    /\ now = Clock0
    /\ relevant_papers = <<>>
    /\ new_relevant_papers = <<>>
    /\ total_entries_processed = 1
    /\ total_entries_in_range = 1
    /\ total_llm_calls = 1
    /\ total_cached_hits = 0
    /\ idx = 1
    /\ entries = <<[id |-> RawA, published |-> Clock0]>>
    /\ entry_idx = 1
    /\ sleeps = 0
    /\ emails = <<>>
    /\ is_relevant = FALSE
    /\ llm_result \in
           {[exit |-> x, stdout |-> o] : x \in {"ok", "fail"}, o \in Outputs}
    /\ save_result = "none"
    /\ loaded = {}
    /\ retry = NoCall
    /\ lines_read = 0
    /\ lines_missed = 0
    /\ extracted = None
    /\ feed_error = FALSE
    /\ append_failed = FALSE
    /\ llm_relevant = 0
    /\ io_clean = TRUE
    /\ ever_new = {}
    /\ ever_notified = {}

(* line 354: is_relevant = llm_filter(title, abstract) *)
Answer ==
    /\ pc = "llm"
    /\ is_relevant' = llm_filter(llm_result)
    /\ pc' = "answered"
    /\ UNCHANGED <<disk, clock, run, cached_paper_ids, now, relevant_papers,
                   new_relevant_papers, counters, idx, entries, entry_idx,
                   sleeps, emails, llm_result, save_result, history, ledger>>

NextParse == Answer

SpecParse == InitParse /\ [][NextParse]_vars

----------------------------------------------------------------------------
(* The two-topic scenario: the cache file holds ids of earlier runs; the   *)
(* first topic yields one entry in the window whose id is present and not  *)
(* in the cache, the second yields one entry in the window whose id was    *)
(* loaded from the file, any further topic yields nothing, and the         *)
(* classifier answers yes.                                                 *)

KnownIds == {extract_paper_id(e) : e \in FeedEntries} \ {None}

Admitted ==
    {e \in FeedEntries : now - Window <= e.published /\ e.published <= now}

ScenarioFeeds ==
    IF idx = 1
    THEN {<<a>> : a \in {e \in Admitted :
                            /\ extract_paper_id(e) # None
                            /\ extract_paper_id(e) \notin cached_paper_ids}}
    ELSE IF idx = 2
         THEN {<<b>> : b \in {e \in Admitted : extract_paper_id(e) \in loaded}}
         ELSE {<<>>}

YesResults ==
    {[exit |-> "ok", stdout |-> o] :
        o \in {YES, <<"y", "e", "s", ".", "\n">>, <<" ", "Y", "e", "s", "!">>}}

InitScenario ==
    /\ file_exists = TRUE
    /\ file \in {<<i>> : i \in KnownIds} \cup {<<i, i>> : i \in KnownIds}
    /\ clock \in {Clock0, Clock0 + 1}
    /\ run = 0
    /\ pc = "exit"
    /\ cached_paper_ids = {}
    /\ now = Clock0
    /\ relevant_papers = <<>>
    /\ new_relevant_papers = <<>>
    /\ total_entries_processed = 0
    /\ total_entries_in_range = 0
    /\ total_llm_calls = 0
    /\ total_cached_hits = 0
    /\ idx = 1
    /\ entries = <<>>
    /\ entry_idx = 1
    /\ sleeps = 0
    /\ emails = <<>>
    /\ is_relevant = FALSE
    /\ llm_result = NoLlm
    /\ save_result = "none"
    /\ loaded = {}
    /\ retry = NoCall
    /\ lines_read = 0
    /\ lines_missed = 0
    /\ extracted = None
    /\ feed_error = FALSE
    /\ append_failed = FALSE
    /\ llm_relevant = 0
    /\ io_clean = TRUE
    /\ ever_new = {}
    /\ ever_notified = {}

HarvestScenario == HarvestFrom(ScenarioFeeds)

ClassifyYes == ClassifyWith(YesResults)

NextScenario ==
    \/ StartRun
    \/ HarvestScenario
    \/ CachedEntry
    \/ ClassifyYes
    \/ NextTopic
    \/ Finish

SpecScenario == InitScenario /\ [][NextScenario]_vars

----------------------------------------------------------------------------
(* The cache load alone: the file is any text of a few lines that earlier  *)
(* runs or an editor left behind, or is absent, and a run starts.          *)

MaxLines == 3

LoadLines ==
    KnownIds
        \cup {<<" ">> \o i \o <<"\n">> : i \in KnownIds}
        \cup {<<>>, <<" ", "\n">>}

LoadFiles == UNION {[1..n -> LoadLines] : n \in 0..MaxLines}

InitLoad ==
    /\ file_exists \in BOOLEAN
    /\ file \in (IF file_exists THEN LoadFiles ELSE {<<>>})
    /\ clock = Clock0
    /\ run = 0
    /\ pc = "exit"
    /\ cached_paper_ids = {}
    /\ now = Clock0
    /\ relevant_papers = <<>>
    /\ new_relevant_papers = <<>>
    /\ total_entries_processed = 0
    /\ total_entries_in_range = 0
    /\ total_llm_calls = 0
    /\ total_cached_hits = 0
    /\ idx = 1
    /\ entries = <<>>
    /\ entry_idx = 1
    /\ sleeps = 0
    /\ emails = <<>>
    /\ is_relevant = FALSE
    /\ llm_result = NoLlm
    /\ save_result = "none"
    /\ loaded = {}
    /\ retry = NoCall
    /\ lines_read = 0
    /\ lines_missed = 0
    /\ extracted = None
    /\ feed_error = FALSE
    /\ append_failed = FALSE
    /\ llm_relevant = 0
    /\ io_clean = TRUE
    /\ ever_new = {}
    /\ ever_notified = {}

NextLoad == StartRun

SpecLoad == InitLoad /\ [][NextLoad]_vars

----------------------------------------------------------------------------
(* extract_paper_id alone: it is called with any entry whose id, or whose  *)
(* link when it has no id, is a short text or a value that is not text.    *)

ExtractTexts ==
    {pre \o left \o sep \o right \o suf :
        pre \in {<<>>, <<"/">>, <<"s", "/">>},
        left \in {<<"1", "2", "3">>, <<"1", "2", "3", "4">>},
        sep \in {<<".">>, <<"-">>},
        right \in {<<"5", "6", "7">>, <<"5", "6", "7", "8">>,
                   <<"5", "6", "7", "8", "9">>,
                   <<"5", "6", "7", "8", "9", "0">>},
        suf \in {<<>>, <<"v", "2">>}}
    \cup {<<>>}

ExtractEntries ==
    {[id |-> t, published |-> Clock0] : t \in ExtractTexts \cup NotText}
        \cup {[link |-> t, published |-> Clock0] : t \in ExtractTexts \cup NotText}
        \cup {[published |-> Clock0]}

InitExtract ==
    /\ file_exists = FALSE
    /\ file = <<>>
    /\ clock = Clock0
    /\ run = 1
    /\ pc = "extract"
    /\ cached_paper_ids = {}
    /\ now = Clock0
    /\ relevant_papers = <<>>
    /\ new_relevant_papers = <<>>
    /\ total_entries_processed = 1
    /\ total_entries_in_range = 1
    /\ total_llm_calls = 0
    /\ total_cached_hits = 0
    /\ idx = 1
    /\ entries \in {<<e>> : e \in ExtractEntries}
    /\ entry_idx = 1
    /\ sleeps = 0
    /\ emails = <<>>
    /\ is_relevant = FALSE
    /\ llm_result = NoLlm
    /\ save_result = "none"
    /\ loaded = {}
    /\ retry = NoCall
    /\ lines_read = 0
    /\ lines_missed = 0
    /\ extracted = None
    /\ feed_error = FALSE
    /\ append_failed = FALSE
    /\ llm_relevant = 0
    /\ io_clean = TRUE
    /\ ever_new = {}
    /\ ever_notified = {}

(* line 333: paper_id = extract_paper_id(entry) *)
Extract ==
    /\ pc = "extract"
    /\ extracted' = extract_paper_id(entries[entry_idx])
    /\ pc' = "extracted"
    /\ UNCHANGED <<disk, clock, run, cached_paper_ids, now, relevant_papers,
                   new_relevant_papers, counters, idx, entries, entry_idx,
                   sleeps, emails, is_relevant, llm_result, save_result,
                   loaded, retry, lines_read, lines_missed, ledger>>

NextExtract == Extract

SpecExtract == InitExtract /\ [][NextExtract]_vars

----------------------------------------------------------------------------
(* Facts about states and steps used by the properties below *)

HasEntry == pc = "entry" /\ entry_idx <= Len(entries)

Entry == entries[entry_idx]

Handled == entries[entry_idx - 1]

FileIds == {file[i] : i \in 1..Len(file)}

Last(seq) == seq[Len(seq)]

InWindow(entry) == now - Window <= entry.published /\ entry.published <= now

(* the step handles the current entry and asks the classifier *)
Asked == llm_result'.exit # "none"

Reported(entry) == <<date(entry.published), format_entry(entry)>>

(* the text is: blanks, then a word that reads y-e-s in any case followed  *)
(* by punctuation marks only, then a blank or the end                      *)
SaysYes(out) ==
    \E i \in 1..Len(out), j \in 1..Len(out) :
        /\ j >= i + 2
        /\ \A k \in 1..(i - 1) : out[k] \in Whitespace
        /\ \A k \in i..j : out[k] \notin Whitespace
        /\ j = Len(out) \/ out[j + 1] \in Whitespace
        /\ out[i] \in {"Y", "y"}
        /\ out[i + 1] \in {"E", "e"}
        /\ out[i + 2] \in {"S", "s"}
        /\ \A k \in (i + 3)..j : out[k] \in {".", ",", "!", "?", ":", ";"}

----------------------------------------------------------------------------
(* C1: an entry in the window whose id is present and in the in-memory     *)
(* cache is handled without a classifier call, is appended to the list of  *)
(* all relevant papers and is not appended to the list of new ones.        *)
C1_CacheShortCircuit ==
    [][(/\ HasEntry
        /\ InWindow(Entry)
        /\ extract_paper_id(Entry) # None
        /\ extract_paper_id(Entry) \in cached_paper_ids)
       => /\ total_llm_calls' = total_llm_calls
          /\ ~Asked
          /\ relevant_papers' = Append(relevant_papers, Reported(Entry))
          /\ new_relevant_papers' = new_relevant_papers]_vars

C1_Witness ==
    /\ pc = "entry" /\ entry_idx > 1
    /\ InWindow(Handled)
    /\ extract_paper_id(Handled) \in loaded
    /\ total_llm_calls = 0
    /\ total_cached_hits = 1
    /\ relevant_papers = <<Reported(Handled)>>
    /\ new_relevant_papers = <<>>

----------------------------------------------------------------------------
(* C2, as claimed: when the classifier finds a cache-missing entry         *)
(* relevant, the entry joins the list of all relevant papers, and if its   *)
(* id is present the id joins the in-memory set AND the file in that same  *)
(* step, and the entry joins the list of new papers.                       *)
C2_AsClaimed ==
    [][(HasEntry /\ Asked /\ is_relevant')
       => /\ relevant_papers' = Append(relevant_papers, Reported(Entry))
          /\ entry_idx' = entry_idx + 1
          /\ extract_paper_id(Entry) # None
                => /\ cached_paper_ids' =
                          cached_paper_ids \cup {extract_paper_id(Entry)}
                   /\ file_exists'
                   /\ file' = Append(file, extract_paper_id(Entry))
                   /\ new_relevant_papers' =
                          Append(new_relevant_papers,
                                 <<Entry, extract_paper_id(Entry)>>)]_vars

(* C2, amended: as above, but the id reaches the file only when the        *)
(* append succeeds; when it fails the file stays as it was and the rest    *)
(* still happens.                                                          *)
C2_ClassifiedRelevant ==
    [][(HasEntry /\ Asked /\ is_relevant')
       => /\ relevant_papers' = Append(relevant_papers, Reported(Entry))
          /\ entry_idx' = entry_idx + 1
          /\ extract_paper_id(Entry) # None
                => /\ cached_paper_ids' =
                          cached_paper_ids \cup {extract_paper_id(Entry)}
                   /\ \/ /\ save_result' = "ok"
                         /\ file_exists'
                         /\ file' = Append(file, extract_paper_id(Entry))
                      \/ /\ save_result' = "fail"
                         /\ UNCHANGED disk
                   /\ new_relevant_papers' =
                          Append(new_relevant_papers,
                                 <<Entry, extract_paper_id(Entry)>>)]_vars

C2_Witness ==
    /\ pc = "entry" /\ entry_idx > 1
    /\ llm_result.exit = "ok" /\ is_relevant
    /\ save_result = "ok"
    /\ extract_paper_id(Handled) # None
    /\ extract_paper_id(Handled) \in cached_paper_ids
    /\ file # <<>> /\ Last(file) = extract_paper_id(Handled)
    /\ new_relevant_papers # <<>>
    /\ Last(new_relevant_papers) = <<Handled, extract_paper_id(Handled)>>
    /\ Last(relevant_papers) = Reported(Handled)

----------------------------------------------------------------------------
(* C3: an entry in the window without an id is sent to the classifier      *)
(* whenever it is met, in every run; it never changes the in-memory cache  *)
(* or the file; when it is found relevant it joins the list of all         *)
(* relevant papers and the list of new ones, and the batch given to the    *)
(* notifier at the end of the run is that list.                            *)
C3_NonCacheable ==
    [][/\ (HasEntry /\ InWindow(Entry) /\ extract_paper_id(Entry) = None)
          => /\ Asked
             /\ total_llm_calls' = total_llm_calls + 1
             /\ total_cached_hits' = total_cached_hits
             /\ cached_paper_ids' = cached_paper_ids
             /\ UNCHANGED disk
             /\ is_relevant'
                   => /\ relevant_papers' =
                             Append(relevant_papers, Reported(Entry))
                      /\ new_relevant_papers' =
                             Append(new_relevant_papers, <<Entry, None>>)
       /\ (pc = "entry" /\ pc' = "exit" /\ new_relevant_papers # <<>>)
          => emails' = <<new_relevant_papers>>
       /\ None \notin cached_paper_ids
       /\ None \notin FileIds]_vars

C3_Witness ==
    /\ run = 2
    /\ retry.result.exit = "ok"
    /\ extract_paper_id(retry.entry) = None
    /\ pc = "entry" /\ entry_idx > 1
    /\ Handled = retry.entry
    /\ llm_result.exit = "ok" /\ is_relevant
    /\ Last(new_relevant_papers) = <<Handled, None>>
    /\ Last(relevant_papers) = Reported(Handled)
    /\ cached_paper_ids = {}
    /\ file = <<>>

----------------------------------------------------------------------------
(* C4: within a run the in-memory set only grows; the file is only ever    *)
(* appended to, so it is never removed, never loses or reorders a line,    *)
(* and the set of ids on disk never shrinks.                               *)
C4_CacheMonotone ==
    [][/\ run' = run => cached_paper_ids \subseteq cached_paper_ids'
       /\ file_exists => file_exists'
       /\ Len(file') >= Len(file)
       /\ Len(file') <= Len(file) + 1
       /\ SubSeq(file', 1, Len(file)) = file
       /\ FileIds \subseteq FileIds']_vars

C4_Witness ==
    /\ run = 2
    /\ Len(file) = 2
    /\ save_result = "ok"
    /\ Cardinality(loaded) = 1
    /\ Cardinality(cached_paper_ids) = 2

----------------------------------------------------------------------------
(* C5: in a run the notifier is called at most once, only when the last    *)
(* topic is done and never while entries are handled, only with a          *)
(* non-empty list of new papers; a run that ends with an empty list has    *)
(* called nothing.                                                         *)
C5_NotifyOnce ==
    /\ Len(emails) <= 1
    /\ emails # <<>>
          => /\ pc = "exit"
             /\ idx = NumTopics
             /\ entry_idx > Len(entries)
             /\ new_relevant_papers # <<>>
             /\ emails = <<new_relevant_papers>>
    /\ (pc = "exit" /\ new_relevant_papers = <<>>) => emails = <<>>

C5_Witness ==
    /\ pc = "exit"
    /\ Len(emails) = 1
    /\ Len(emails[1]) = 2
    /\ total_llm_calls = 3

----------------------------------------------------------------------------
(* C6: when the classifier process fails for an entry, the verdict is not  *)
(* relevant, the run goes on with the next entry, and neither the          *)
(* in-memory cache, the file nor the two lists change; and an entry in     *)
(* the window whose id is not in the cache is sent to the classifier       *)
(* whenever it is met, so an entry that failed is asked about again in     *)
(* the next run.                                                           *)
C6_ClassifierFailure ==
    [][/\ (HasEntry /\ llm_result'.exit = "fail")
          => /\ ~is_relevant'
             /\ total_llm_calls' = total_llm_calls + 1
             /\ pc' = "entry"
             /\ entries' = entries
             /\ entry_idx' = entry_idx + 1
             /\ cached_paper_ids' = cached_paper_ids
             /\ UNCHANGED disk
             /\ relevant_papers' = relevant_papers
             /\ new_relevant_papers' = new_relevant_papers
             /\ emails' = emails
       /\ (HasEntry /\ InWindow(Entry)
              /\ extract_paper_id(Entry) \notin cached_paper_ids)
          => /\ Asked
             /\ total_llm_calls' = total_llm_calls + 1]_vars

C6_Witness ==
    /\ run = 2
    /\ retry.result.exit = "fail"
    /\ pc = "entry" /\ entry_idx > 1
    /\ Handled = retry.entry
    /\ llm_result.exit # "none"
    /\ total_llm_calls = 1


----------------------------------------------------------------------------
(* C7: the verdict of the classifier adapter is relevant exactly when the  *)
(* process exits normally and the first whitespace-delimited word of its   *)
(* output, upper-cased and without trailing punctuation, is YES; so YES,   *)
(* "yes." and "Yes!" are relevant, and NO, the empty output, MAYBE and a   *)
(* failed exit are not.                                                    *)
C7_Normalization ==
    pc = "answered" =>
        /\ is_relevant = (llm_result.exit = "ok" /\ SaysYes(llm_result.stdout))
        /\ llm_result.exit = "ok" =>
              /\ llm_result.stdout
                     \in {YES, <<"y", "e", "s", ".">>, <<"Y", "e", "s", "!">>}
                    => is_relevant
              /\ llm_result.stdout \in {NO, <<>>, <<"M", "A", "Y", "B", "E">>}
                    => ~is_relevant
        /\ llm_result.exit = "fail" => ~is_relevant

C7_Witness ==
    /\ pc = "answered"
    /\ llm_result = [exit |-> "ok", stdout |-> <<"Y", "e", "s", "!">>]
    /\ is_relevant

----------------------------------------------------------------------------
(* C8: `now` is the wall clock at the start of the run and stays what it   *)
(* is for the whole run; an entry is handled further (counted in range,    *)
(* then a cache hit or a classifier call) exactly when                     *)
(* now - DAYS_BACK <= published <= now; an entry outside is skipped and    *)
(* changes no counter, no cache, no file and no list.                      *)
C8_TimeWindow ==
    [][/\ run' = run => now' = now
       /\ run' # run => now' = clock
       /\ HasEntry
          => /\ entry_idx' = entry_idx + 1
             /\ IF /\ now - DAYS_BACK * TicksPerDay <= Entry.published
                   /\ Entry.published <= now
                THEN /\ total_entries_in_range' = total_entries_in_range + 1
                     /\ total_llm_calls' + total_cached_hits' =
                            total_llm_calls + total_cached_hits + 1
                ELSE /\ ~Asked
                     /\ UNCHANGED <<counters, cached_paper_ids, disk,
                                    relevant_papers, new_relevant_papers,
                                    emails, is_relevant, pc, idx, entries>>]_vars

C8_Witness ==
    /\ pc = "entry" /\ idx = 1 /\ entry_idx = 3
    /\ clock = now
    /\ entries[1].published = now + 1
    /\ entries[2].published = now - DAYS_BACK * TicksPerDay
    /\ total_entries_processed = 2
    /\ total_entries_in_range = 1
    /\ total_llm_calls = 1

----------------------------------------------------------------------------
(* C9: at the end of a run of the two-topic scenario the classifier has    *)
(* been called exactly once, the in-memory cache holds exactly one id more *)
(* than was loaded, the list of all relevant papers holds two entries and  *)
(* the batch given to the notifier holds one, the entry of the first       *)
(* topic.                                                                  *)
C9_TwoTopicRun ==
    (pc = "exit" /\ run >= 1)
       => /\ total_llm_calls = 1
          /\ total_cached_hits = 1
          /\ loaded \subseteq cached_paper_ids
          /\ Cardinality(cached_paper_ids) = Cardinality(loaded) + 1
          /\ Len(relevant_papers) = 2
          /\ Len(new_relevant_papers) = 1
          /\ emails = <<new_relevant_papers>>
          /\ new_relevant_papers[1][2] \in cached_paper_ids \ loaded
          /\ new_relevant_papers[1][2] =
                 extract_paper_id(new_relevant_papers[1][1])
          /\ relevant_papers[1] = Reported(new_relevant_papers[1][1])
          /\ relevant_papers[2][2].Link \notin {new_relevant_papers[1][1].id}

C9_Witness ==
    /\ pc = "exit" /\ run = 1
    /\ total_llm_calls = 1
    /\ Len(relevant_papers) = 2
    /\ Len(emails) = 1 /\ Len(emails[1]) = 1
    /\ save_result = "none"
    /\ Len(file) = 2

----------------------------------------------------------------------------
(* C10: when the append to the file fails, the id is in the in-memory set  *)
(* all the same, the file is as it was, the entry joins both lists and     *)
(* the run goes on; the in-memory set does not shrink during the run, and  *)
(* an id that is in memory but not in the file is a cache hit.             *)
C10_AppendFailure ==
    [][/\ (HasEntry /\ save_result' = "fail")
          => /\ extract_paper_id(Entry) \in cached_paper_ids'
             /\ UNCHANGED disk
             /\ is_relevant'
             /\ relevant_papers' = Append(relevant_papers, Reported(Entry))
             /\ new_relevant_papers' =
                    Append(new_relevant_papers,
                           <<Entry, extract_paper_id(Entry)>>)
             /\ pc' = "entry"
             /\ entries' = entries
             /\ entry_idx' = entry_idx + 1
       /\ run' = run => cached_paper_ids \subseteq cached_paper_ids'
       /\ (HasEntry /\ InWindow(Entry)
              /\ extract_paper_id(Entry) \in cached_paper_ids \ FileIds)
          => /\ ~Asked
             /\ total_cached_hits' = total_cached_hits + 1
             /\ total_llm_calls' = total_llm_calls
             /\ is_relevant']_vars

C10_Witness ==
    /\ pc = "entry" /\ entry_idx > 1
    /\ InWindow(Handled)
    /\ llm_result.exit = "none"
    /\ extract_paper_id(Handled) \in cached_paper_ids \ FileIds
    /\ total_cached_hits = 1
    /\ Len(new_relevant_papers) = 1
    /\ Len(relevant_papers) = 2

----------------------------------------------------------------------------
(* C11: once the feed retrieval of a topic has failed in a run, the run    *)
(* stands aborted at that topic for the rest of its life: it harvests no   *)
(* further topic, handles no further entry, and no batch has been given    *)
(* to the notifier in that run.                                            *)
C11_HarvestFatal ==
    feed_error =>
        /\ pc = "crashed"
        /\ emails = <<>>
        /\ sleeps = idx - 1
        /\ idx > 1 => entry_idx = Len(entries) + 1

(* the second topic fails after the first one found a new paper *)
C11_Witness ==
    /\ feed_error
    /\ pc = "crashed"
    /\ idx = 2
    /\ idx <= NumTopics
    /\ new_relevant_papers # <<>>
    /\ emails = <<>>

----------------------------------------------------------------------------
(* the text of a line without its blanks *)
Unblanked(line) == SelectSeq(line, LAMBDA c : c \notin Whitespace)

(* the ids on the first n lines *)
IdsOfLines(lines, n) == {Unblanked(lines[k]) : k \in 1..n} \ {<<>>}

RECURSIVE Dedup(_)
(* the lines without every line that repeats an earlier one *)
Dedup(lines) ==
    IF lines = <<>>
    THEN <<>>
    ELSE LET front == Dedup(SubSeq(lines, 1, Len(lines) - 1))
             line == lines[Len(lines)]
         IN IF \E k \in 1..Len(front) : front[k] = line
            THEN front
            ELSE Append(front, line)

(* C12: a load that reads the whole file yields the set of the ids on its  *)
(* lines, each once however many lines carry it; lines of blanks only add  *)
(* nothing; the file without its repeated lines loads to the same set; and *)
(* recording an id that is already in the set leaves the set as it is.     *)
C12_LoadIdempotent ==
    (run = 1 /\ pc = "topic" /\ lines_missed = 0) =>
        /\ cached_paper_ids = IdsOfLines(file, Len(file))
        /\ <<>> \notin cached_paper_ids
        /\ \A line \in cached_paper_ids : Unblanked(line) = line
        /\ Cardinality(cached_paper_ids) <= Len(Dedup(file))
        /\ cached_paper_ids =
               load_relevant_paper_ids(file_exists, Dedup(file),
                                       Len(Dedup(file)))
        /\ \A i \in cached_paper_ids :
               cache_add(cached_paper_ids, i, TRUE) = cached_paper_ids

(* the same id on two lines with a line of blanks between them *)
C12_Witness ==
    /\ run = 1
    /\ pc = "topic"
    /\ lines_missed = 0
    /\ Len(file) = 3
    /\ file[1] \in KnownIds
    /\ Unblanked(file[3]) = file[1]
    /\ file[2] # <<>>
    /\ Unblanked(file[2]) = <<>>
    /\ Cardinality(cached_paper_ids) = 1

----------------------------------------------------------------------------
(* C13: whatever the cache load met, the run goes on: with no file the     *)
(* load gave the empty set, with a read that failed after some lines it    *)
(* gave the ids of exactly those lines, the run holds that set (and what   *)
(* it found since) as its cache, only a failed feed retrieval ever aborts  *)
(* it, and it ends after the last topic.                                   *)
C13_LoadNeverAborts ==
    run >= 1 =>
        /\ loaded = IdsOfLines(file, lines_read)
        /\ ~file_exists => (loaded = {} /\ lines_read = 0)
        /\ loaded \subseteq cached_paper_ids
        /\ pc \in {"topic", "entry", "exit", "crashed"}
        /\ pc = "crashed" => feed_error
        /\ pc = "exit" => idx = NumTopics

(* the read failed after the first of several lines and the run finished *)
C13_Witness ==
    /\ run = 2
    /\ pc = "exit"
    /\ lines_read = 1
    /\ lines_missed >= 1
    /\ loaded = {file[1]}
    /\ file[2] \notin loaded
    /\ idx = NumTopics
    /\ total_entries_in_range >= 1

----------------------------------------------------------------------------
(* the lines of the report of the finished run *)
Printed == report(relevant_papers)

(* the header line above line k of the report *)
HeaderAbove(out, k) ==
    out[CHOOSE h \in 1..k :
            /\ out[h].header
            /\ \A j \in (h + 1)..k : ~out[j].header]

(* the papers of one date, in the order of the sequence *)
PapersOf(out, d) ==
    SelectSeq(out, LAMBDA line :
        ~line.header /\ date(line.paper.Date) = d)

----------------------------------------------------------------------------
(* four digits, a dot, four or five digits *)
IsToken(t) ==
    /\ Len(t) \in {9, 10}
    /\ \A k \in 1..Len(t) : IF k = 5 THEN t[k] = "." ELSE t[k] \in Digits

(* the text t occurs in the text s *)
OccursIn(t, s) ==
    \E p \in 1..Len(s) :
        p + Len(t) - 1 <= Len(s) /\ SubSeq(s, p, p + Len(t) - 1) = t

(* C15: for every entry, also one whose id is missing or is not text, the  *)
(* call of extract_paper_id raises nothing and returns either a token of   *)
(* four digits, a dot and four or five digits that occurs in the id, or    *)
(* None, and never the empty text; a link ending in /1234.5678v2 gives     *)
(* 1234.5678.                                                              *)
C15_ExtractTotal ==
    pc = "extracted" =>
        /\ extracted # TypeError
        /\ extracted # <<>>
        /\ \/ extracted = None
           \/ /\ IsToken(extracted)
              /\ OccursIn(extracted, getattr_id(entries[entry_idx]))
        /\ getattr_id(entries[entry_idx]) =
               <<"/", "1", "2", "3", "4", ".", "5", "6", "7", "8", "v", "2">>
           => extracted = <<"1", "2", "3", "4", ".", "5", "6", "7", "8">>

(* the same property for entries whose id is text or missing *)
C15_ExtractTotalOnText ==
    (pc = "extracted" /\ getattr_id(entries[entry_idx]) \notin NotText) =>
        /\ extracted # TypeError
        /\ extracted # <<>>
        /\ \/ extracted = None
           \/ /\ IsToken(extracted)
              /\ OccursIn(extracted, getattr_id(entries[entry_idx]))

----------------------------------------------------------------------------
(* C16: in every step of a run the topic number stays or grows by one; it  *)
(* grows only when every entry of the current topic is done, and together  *)
(* with one pause; so a run has paused once for every topic before the     *)
(* current one, and a run that has ended after its last topic has paused   *)
(* NumTopics - 1 times and not after the last topic.                       *)
C16_TopicSequencing ==
    [][/\ run' >= 1 =>
             /\ idx' \in 1..NumTopics
             /\ sleeps' = idx' - 1
             /\ clock' - now' = sleeps'
             /\ (pc' = "topic" /\ idx' > 1) => entry_idx' = Len(entries') + 1
             /\ pc' = "exit" =>
                    /\ idx' = NumTopics
                    /\ sleeps' = NumTopics - 1
                    /\ entry_idx' = Len(entries') + 1
       /\ (run' = run /\ idx' # idx) =>
             /\ idx' = idx + 1
             /\ pc = "entry"
             /\ entry_idx > Len(entries)
             /\ pc' = "topic"
             /\ sleeps' = sleeps + 1
       /\ (run' = run /\ sleeps' # sleeps) => idx' = idx + 1
       /\ (run' = run /\ pc = "topic" /\ pc' = "entry") =>
             (idx' = idx /\ entry_idx' = 1)
       /\ run' # run => (idx' = 1 /\ sleeps' = 0)]_vars

(* a run over several topics has ended *)
C16_Witness ==
    /\ run >= 1
    /\ pc = "exit"
    /\ NumTopics >= 2
    /\ idx = NumTopics
    /\ sleeps = NumTopics - 1
    /\ total_entries_in_range >= 2

----------------------------------------------------------------------------
(* C17: at every point of a run the entries counted in the window are the  *)
(* cache hits plus the classifier calls, relevant_papers holds one paper   *)
(* for every cache hit and every relevant verdict, new_relevant_papers     *)
(* holds one for every relevant verdict, and no more entries are counted   *)
(* in the window than were retrieved.                                      *)
C17_Counters ==
    run >= 1 =>
        /\ total_entries_in_range = total_cached_hits + total_llm_calls
        /\ Len(relevant_papers) = total_cached_hits + llm_relevant
        /\ Len(new_relevant_papers) = llm_relevant
        /\ total_entries_in_range <= total_entries_processed
        /\ llm_relevant <= total_llm_calls

(* hits, relevant and other verdicts, and an entry outside the window *)
C17_Witness ==
    /\ run >= 1
    /\ total_cached_hits >= 1
    /\ llm_relevant >= 1
    /\ total_llm_calls > llm_relevant
    /\ total_entries_processed > total_entries_in_range
    /\ \E k \in 1..Len(new_relevant_papers) : new_relevant_papers[k][2] = None

----------------------------------------------------------------------------
(* C18: at every point of a run whose cache load read the whole file, the  *)
(* ids on the file are all in cached_paper_ids, the two sets are the same  *)
(* unless an append of the run has failed, and no line the run has         *)
(* appended repeats an earlier line of the file.                           *)
C18_DiskMemory ==
    (run >= 1 /\ lines_missed = 0) =>
        /\ IdsOfLines(file, Len(file)) \subseteq cached_paper_ids
        /\ ~append_failed => IdsOfLines(file, Len(file)) = cached_paper_ids
        /\ \A k \in (lines_read + 1)..Len(file) :
               \A j \in 1..(k - 1) : file[j] # file[k]

(* a later run read the whole file and then failed to append a new id *)
C18_Witness ==
    /\ run = 2
    /\ lines_missed = 0
    /\ lines_read >= 1
    /\ append_failed
    /\ save_result = "fail"
    /\ FileIds \subseteq cached_paper_ids
    /\ FileIds # cached_paper_ids

----------------------------------------------------------------------------
(* C19: as long as no cache load and no append has failed in any run so    *)
(* far, a step that puts a paper with an id on new_relevant_papers puts    *)
(* there an id that no run, this one included, has put there before; so    *)
(* the ids on the list differ from one another.                            *)
C19_NoRepeatedNotification ==
    [][io_clean =>
          /\ (/\ run' = run
              /\ Len(new_relevant_papers') > Len(new_relevant_papers)
              /\ Last(new_relevant_papers')[2] # None) =>
                 /\ Last(new_relevant_papers')[2] \notin ever_new
                 /\ Last(new_relevant_papers')[2] \in ever_new'
                 /\ Len(new_relevant_papers') = Len(new_relevant_papers) + 1
          /\ \A j, k \in 1..Len(new_relevant_papers) :
                 (j < k /\ new_relevant_papers[j][2] # None) =>
                     new_relevant_papers[j][2] # new_relevant_papers[k][2]
          /\ BatchIds(<<new_relevant_papers>>) \subseteq ever_new]_vars

(* a later run meets again, under its last topic, an id that an earlier    *)
(* run had put on its list, and puts nothing on its own                    *)
C19_Witness ==
    /\ run = 2
    /\ pc = "exit"
    /\ io_clean
    /\ ever_new # {}
    /\ ever_notified = ever_new
    /\ entries # <<>>
    /\ extract_paper_id(Handled) \in ever_new
    /\ InWindow(Handled)
    /\ total_cached_hits >= 1
    /\ total_llm_calls = 0
    /\ new_relevant_papers = <<>>

----------------------------------------------------------------------------
(* C20: every id a run has appended to the cache file is handed to the     *)
(* notifier in a batch, by that run or by a later one: when a later run    *)
(* that read the whole file has ended after its last topic, every id the   *)
(* earlier runs left on the file has been in a batch.                      *)
C20_NoLostNotification ==
    (run >= 2 /\ pc = "exit" /\ lines_missed = 0) =>
        IdsOfLines(file, lines_read) \subseteq ever_notified

====
